---- MODULE Spec2Model ----
(***************************************************************************)
(* FileFinder of get-code.py: walk the configured folders under a root,    *)
(* collect the text of the files whose name ends with a configured         *)
(* extension, and write the collection to one output file.                 *)
(*                                                                         *)
(* A string is a sequence of one-character strings, so that suffix tests,  *)
(* str.replace, slicing and '\n'.join are computed character by character. *)
(***************************************************************************)
EXTENDS Integers, Sequences, FiniteSets, TLC

VARIABLES
    root_path,          \* self.root_path
    folders_to_search,  \* self.folders_to_search
    output_filename,    \* self.output_filename
    extensions,         \* self.extensions
    all_file_contents,  \* self.all_file_contents
    fs,                 \* the files below the root directory, in os.walk order
    pc,                 \* position of the caller / of run()
    idx,                \* position of run()'s loop over folders_to_search
    pending,            \* full paths os.walk has still to hand to the inner loop
    log,                \* the records handed to the logger
    prov,               \* history: for each appended triple, the file and folder it came from
    opened,             \* history: the files open(full_path, 'r') was called on
    runs,               \* history: one record per call of run()
    objRuns             \* history: number of run() calls on the current FileFinder

vars == <<root_path, folders_to_search, output_filename, extensions,
          all_file_contents, fs, pc, idx, pending, log, prov, opened, runs, objRuns>>

config == <<root_path, folders_to_search, output_filename, extensions>>

----------------------------------------------------------------------------
(* Bounds *)

\* longest configured folder list
MaxFolders == 2
\* number of run() calls in one behaviour
MaxRuns == 2

----------------------------------------------------------------------------
(* Strings *)

SEP == "/"
NL == "\n"

FilePathPrefix == <<"F", "i", "l", "e", " ", "P", "a", "t", "h", ":", " ">>
Separator == <<"-", "-", "-">>

StartsWith(s, p) == Len(p) <= Len(s) /\ SubSeq(s, 1, Len(p)) = p

EndsWithAnywhere(s, suf) ==
    \E k \in 1..(Len(s) - Len(suf) + 1) : SubSeq(s, k, k + Len(suf) - 1) = suf

\* str.endswith
EndsWith(s, suf) ==
    Len(suf) <= Len(s) /\ SubSeq(s, Len(s) - Len(suf) + 1, Len(s)) = suf

\* s[1:]
DropFirst(s) == SubSeq(s, 2, Len(s))

\* str.replace(old, new): the non-overlapping occurrences of old, left to right
RECURSIVE Replace(_, _, _)
Replace(s, old, new) ==
    IF old = <<>>
    THEN IF s = <<>> THEN new ELSE new \o <<Head(s)>> \o Replace(Tail(s), old, new)
    ELSE IF s = <<>> THEN <<>>
    ELSE IF StartsWith(s, old)
         THEN new \o Replace(SubSeq(s, Len(old) + 1, Len(s)), old, new)
         ELSE <<Head(s)>> \o Replace(Tail(s), old, new)

\* os.path.join(a, b) (posixpath)
PathJoin(a, b) ==
    IF StartsWith(b, <<SEP>>) THEN b
    ELSE IF a = <<>> \/ a[Len(a)] = SEP THEN a \o b
    ELSE a \o <<SEP>> \o b

RECURSIVE PathJoinAll(_, _)
PathJoinAll(a, segs) ==
    IF segs = <<>> THEN a ELSE PathJoinAll(PathJoin(a, Head(segs)), Tail(segs))

\* the path components of a relative path string
RECURSIVE Split(_)
Split(s) ==
    IF s = <<>> THEN <<>>
    ELSE IF Head(s) = SEP THEN Split(Tail(s))
    ELSE LET n == IF \E k \in 1..Len(s) : s[k] = SEP
                  THEN (CHOOSE k \in 1..Len(s) :
                            s[k] = SEP /\ \A j \in 1..(k - 1) : s[j] # SEP) - 1
                  ELSE Len(s)
         IN <<SubSeq(s, 1, n)>> \o Split(SubSeq(s, n + 1, Len(s)))

JoinLinesTrailing(frags) ==
    LET F[k \in 0..Len(frags)] ==
            IF k = 0 THEN <<>> ELSE F[k - 1] \o frags[k] \o <<NL>>
    IN F[Len(frags)]

\* '\n'.join(frags)
JoinLines(frags) ==
    LET F[k \in 0..Len(frags)] ==
            IF k = 0 THEN <<>>
            ELSE IF k = 1 THEN frags[1]
            ELSE F[k - 1] \o <<NL>> \o frags[k]
    IN F[Len(frags)]

----------------------------------------------------------------------------
(* The filesystem below the root directory *)

Dirs == { <<>>, << <<"a">> >>, << <<"a">>, <<"r">> >>, << <<"c">> >> }

File(d, n, t, c) == [dir |-> d, name |-> n, text |-> t, content |-> c]

\* the tree the runs start from, listed as a top-down os.walk of the root lists it;
\* text = FALSE is a file that open() or the UTF-8 decoder rejects
InitialFiles ==
    << File(<<>>, <<"o", ".", "t", "x", "t">>, TRUE, <<"o", "l", "d">>),
       File(<< <<"a">> >>, <<"x", ".", "t", "s">>, TRUE, <<"x">>),
       File(<< <<"a">> >>, <<"b", ".", "t", "s">>, FALSE, <<>>),
       File(<< <<"a">> >>, <<"w", ".", "T", "S">>, TRUE, <<"w">>),
       File(<< <<"a">> >>, <<"v", ".", "t", "s", "s">>, TRUE, <<"v">>),
       File(<< <<"a">>, <<"r">> >>, <<"y", ".", "t", "s">>, TRUE, <<"y">>),
       File(<< <<"a">>, <<"r">> >>, <<"k", ".", "c">>, TRUE, <<"k">>),
       File(<< <<"c">> >>, <<"z", ".", "c">>, TRUE, <<"z">>) >>

FileId(f) == f.dir \o <<f.name>>

IsPrefix(p, s) == Len(p) <= Len(s) /\ SubSeq(s, 1, Len(p)) = p

\* the components below the root directory that a path string built from root_path names
Resolve(root, path) == Split(SubSeq(path, Len(root) + 1, Len(path)))

HasFile(files, id) == \E k \in 1..Len(files) : FileId(files[k]) = id

Lookup(files, id) == files[CHOOSE k \in 1..Len(files) : FileId(files[k]) = id]

\* os.path.exists(folder_path)
FolderExistsAlways(files, root, folder_path) == TRUE

FolderExists(files, root, folder_path) ==
    LET g == Resolve(root, folder_path) IN g \in Dirs \/ HasFile(files, g)

Entry(folder_path, g, f) ==
    [root |-> PathJoinAll(folder_path, SubSeq(f.dir, Len(g) + 1, Len(f.dir))),
     file |-> f.name]

RECURSIVE MapEntries(_, _, _)
MapEntries(folder_path, g, files) ==
    IF files = <<>> THEN <<>>
    ELSE <<Entry(folder_path, g, Head(files))>> \o MapEntries(folder_path, g, Tail(files))

\* os.listdir instead of os.walk: the files directly in the folder only
WalkShallow(files, root, folder_path) ==
    LET g == Resolve(root, folder_path)
        under(f) == f.dir = g
    IN  MapEntries(folder_path, g, SelectSeq(files, under))

\* os.walk(folder_path), flattened to the (root, file) pairs of the two loops
Walk(files, root, folder_path) ==
    LET g == Resolve(root, folder_path)
        under(f) == IsPrefix(g, f.dir)
    IN  IF g \in Dirs THEN MapEntries(folder_path, g, SelectSeq(files, under)) ELSE <<>>

\* the file at the output path: present with its content, or absent
OutputState(files, id) ==
    IF HasFile(files, id)
    THEN [exists |-> TRUE, content |-> Lookup(files, id).content]
    ELSE [exists |-> FALSE, content |-> <<>>]

\* open(path, 'w') followed by a write of data: the file holds data and nothing else
WriteFile(files, id, data) ==
    LET d == SubSeq(id, 1, Len(id) - 1)
        f == File(d, id[Len(id)], TRUE, data)
    IN  IF HasFile(files, id)
        THEN [k \in 1..Len(files) |-> IF FileId(files[k]) = id THEN f ELSE files[k]]
        ELSE LET same == {k \in 1..Len(files) : files[k].dir = d}
                 at == IF same = {} THEN 0
                       ELSE CHOOSE k \in same : \A j \in same : j <= k
             IN  SubSeq(files, 1, at) \o <<f>> \o SubSeq(files, at + 1, Len(files))

----------------------------------------------------------------------------
(* Configurations *)

RootPaths == { <<"/", "r">>, <<"/", "r", "/">> }

FolderNames == { <<"a">>, <<"a", "/", "r">>, <<"c">>, <<"m">> }

FolderLists == UNION { [1..n -> FolderNames] : n \in 1..MaxFolders }

OutputNames == { <<"o", ".", "t", "x", "t">>, <<"a", "/", "o", ".", "t", "s">> }

ExtensionSets == { { <<".", "t", "s">> }, { <<".", "t", "s">>, <<".", "c">> } }

----------------------------------------------------------------------------
(* FileFinder *)

ContainsExt(exts, file) == \E ext \in exts : EndsWithAnywhere(file, ext)

\* any(file.endswith(ext) for ext in self.extensions)
Matches(exts, file) == \E ext \in exts : EndsWith(file, ext)

\* full_path.replace(self.root_path, '')[1:]
RelativePath(root, full_path) == DropFirst(Replace(full_path, root, <<>>))

FragmentsNoSeparator(relative_path, file_content) ==
    <<FilePathPrefix \o relative_path, file_content>>

\* [f'File Path: {relative_path}', file_content, '---']
Fragments(relative_path, file_content) ==
    <<FilePathPrefix \o relative_path, file_content, Separator>>

Rec(level, msg, arg) == [level |-> level, msg |-> msg, arg |-> arg]

Init ==
    /\ root_path \in RootPaths
    /\ folders_to_search \in FolderLists
    /\ output_filename \in OutputNames
    /\ extensions \in ExtensionSets
    /\ all_file_contents = <<>>
    /\ fs = InitialFiles
    /\ pc = "ready"
    /\ idx = 0
    /\ pending = <<>>
    /\ log = <<>>
    /\ prov = <<>>
    /\ opened = {}
    /\ runs = <<>>
    /\ objRuns = 0


OutputId == Resolve(root_path, PathJoin(root_path, output_filename))

CurrentRun == runs[Len(runs)]

\* FileFinder.__init__ called again with the same arguments: a new FileFinder
ConstructKeep ==
    /\ pc = "done"
    /\ Len(runs) < MaxRuns
    /\ pc' = "ready"
    /\ objRuns' = 0
    /\ UNCHANGED <<config, all_file_contents, prov, fs, idx, pending, log, opened, runs>>

Construct ==
    /\ pc = "done"
    /\ Len(runs) < MaxRuns
    /\ all_file_contents' = <<>>
    /\ prov' = <<>>
    /\ pc' = "ready"
    /\ objRuns' = 0
    /\ UNCHANGED <<config, fs, idx, pending, log, opened, runs>>

\* run() is called, on a new FileFinder or once more on the one that has run
RunBegin ==
    /\ pc \in {"ready", "done"}
    /\ Len(runs) < MaxRuns
    /\ runs' = Append(runs, [fresh |-> objRuns = 0,
                             logStart |-> Len(log),
                             accStart |-> Len(all_file_contents),
                             writes |-> 0,
                             result |-> "none",
                             before |-> OutputState(fs, OutputId),
                             after |-> OutputState(fs, OutputId)])
    /\ objRuns' = objRuns + 1
    /\ idx' = 1
    /\ pending' = <<>>
    /\ pc' = "folders"
    /\ UNCHANGED <<config, all_file_contents, fs, log, prov, opened>>

FolderAtReversed(k) == folders_to_search[Len(folders_to_search) + 1 - k]

\* the folder the k-th iteration of run()'s loop takes
FolderAt(k) == folders_to_search[k]

\* one iteration of "for folder in self.folders_to_search" up to the call of os.walk
EnterFolder ==
    /\ pc = "folders"
    /\ idx <= Len(folders_to_search)
    /\ LET folder == FolderAt(idx)
           folder_path == PathJoin(root_path, folder)
       IN  \/ /\ FolderExists(fs, root_path, folder_path)
              /\ pending' = Walk(fs, root_path, folder_path)
              /\ pc' = "walk"
              /\ UNCHANGED <<idx, log>>
           \/ /\ ~FolderExists(fs, root_path, folder_path)
              /\ log' = Append(log, Rec("WARNING", "Folder does not exist", folder))
              /\ idx' = idx + 1
              /\ UNCHANGED <<pc, pending>>
    /\ UNCHANGED <<config, all_file_contents, fs, prov, opened, runs, objRuns>>

AbandonFolder(rest) == <<>>

\* what the inner loops go on with after the except clause
AfterReadError(rest) == rest

\* one iteration of "for file in files"
ProcessFile ==
    /\ pc = "walk"
    /\ pending # <<>>
    /\ LET e == Head(pending)
           full_path == PathJoin(e.root, e.file)
           id == Resolve(root_path, full_path)
           f == Lookup(fs, id)
       IN  \/ /\ ~Matches(extensions, e.file)
              /\ pending' = Tail(pending)
              /\ UNCHANGED <<all_file_contents, log, prov, opened>>
           \/ /\ Matches(extensions, e.file)
              /\ f.text
              /\ LET relative_path == RelativePath(root_path, full_path)
                 IN  /\ all_file_contents' =
                            all_file_contents \o Fragments(relative_path, f.content)
                     /\ log' = Append(log, Rec("INFO", "Appended content from", relative_path))
              /\ prov' = Append(prov, [file |-> id, folder |-> idx, run |-> Len(runs)])
              /\ opened' = opened \cup {id}
              /\ pending' = Tail(pending)
           \/ /\ Matches(extensions, e.file)
              /\ ~f.text
              /\ log' = Append(log, Rec("ERROR", "Error reading", full_path))
              /\ opened' = opened \cup {id}
              /\ pending' = AfterReadError(Tail(pending))
              /\ UNCHANGED <<all_file_contents, prov>>
    /\ UNCHANGED <<config, fs, pc, idx, runs, objRuns>>

\* os.walk is exhausted: find_and_append_files returns to run()
FolderDone ==
    /\ pc = "walk"
    /\ pending = <<>>
    /\ log' = Append(log, Rec("INFO", "Searched through", PathJoin(root_path, FolderAt(idx))))
    /\ idx' = idx + 1
    /\ pc' = "folders"
    /\ UNCHANGED <<config, all_file_contents, fs, pending, prov, opened, runs, objRuns>>

\* how much of the data can have reached the file when the write fails after the open
PartialLens(data) == {0, Len(data) \div 2}

OpenFailureTruncates(files, id) == WriteFile(files, id, <<>>)

\* the filesystem after open(path, 'w') has raised
AfterOpenFailure(files, id) == files

\* the filesystem after open(path, 'w') succeeded and the write raised having written n characters
AfterWriteFailure(files, id, data, n) == WriteFile(files, id, SubSeq(data, 1, n))

\* write_to_file, called by run() after the loop
WriteToFile ==
    /\ pc = "folders"
    /\ idx > Len(folders_to_search)
    /\ LET data == JoinLines(all_file_contents)
           before == OutputState(fs, OutputId)
           done(res, files) ==
               /\ fs' = files
               /\ runs' = [runs EXCEPT ![Len(runs)] =
                              [@ EXCEPT !.writes = @ + 1,
                                        !.result = res,
                                        !.before = before,
                                        !.after = OutputState(files, OutputId)]]
       IN  \/ /\ done("ok", WriteFile(fs, OutputId, data))
              /\ log' = Append(log, Rec("INFO", "Operation completed", output_filename))
           \/ /\ done("open_failed", AfterOpenFailure(fs, OutputId))
              /\ log' = Append(log, Rec("ERROR", "Failed to write", output_filename))
           \/ /\ \E n \in PartialLens(data) :
                     done("write_failed", AfterWriteFailure(fs, OutputId, data, n))
              /\ log' = Append(log, Rec("ERROR", "Failed to write", output_filename))
    /\ pc' = "done"
    /\ UNCHANGED <<config, all_file_contents, idx, pending, prov, opened, objRuns>>

Next ==
    \/ Construct
    \/ RunBegin
    \/ EnterFolder
    \/ ProcessFile
    \/ FolderDone
    \/ WriteToFile

Spec == Init /\ [][Next]_vars

----------------------------------------------------------------------------
(* Vocabulary of the properties *)

Running == pc \in {"folders", "walk"}

Finished == pc = "done"

NTriples == Len(all_file_contents) \div 3

HeaderAt(k) == all_file_contents[3 * k - 2]
ContentAt(k) == all_file_contents[3 * k - 1]
SeparatorAt(k) == all_file_contents[3 * k]

\* one history record per triple of the accumulator
Aligned == Len(all_file_contents) = 3 * Len(prov)

\* the path of a file relative to the root directory, written with "/"
RECURSIVE PathOf(_)
PathOf(id) ==
    IF id = <<>> THEN <<>>
    ELSE IF Len(id) = 1 THEN id[1]
    ELSE id[1] \o <<SEP>> \o PathOf(Tail(id))

\* ext is the tail of name, character for character
IsSuffix(ext, name) == \E pre \in {SubSeq(name, 1, n) : n \in 0..Len(name)} : name = pre \o ext

NameOf(id) == id[Len(id)]

\* the part of the log a run has written
RunLog(r) ==
    SubSeq(log, runs[r].logStart + 1,
           IF r < Len(runs) THEN runs[r + 1].logStart ELSE Len(log))

\* content is the fragments in order with exactly one newline between neighbours
JoinedAs(content, frags) ==
    LET off[k \in 0..Len(frags)] ==
            IF k = 0 THEN 0 ELSE off[k - 1] + Len(frags[k]) + 1
    IN  /\ Len(content) = (IF frags = <<>> THEN 0 ELSE off[Len(frags)] - 1)
        /\ \A k \in 1..Len(frags) :
               /\ SubSeq(content, off[k - 1] + 1, off[k] - 1) = frags[k]
               /\ k < Len(frags) => content[off[k]] = NL

----------------------------------------------------------------------------
(* C3 *)

\* C3: every header in the accumulator is 'File Path: ' followed by the path of its
\* file relative to the root directory, whatever the root path string and the path
C3_HeaderIsRelativePath ==
    Aligned =>
        \A k \in 1..Len(prov) : HeaderAt(k) = FilePathPrefix \o PathOf(prov[k].file)

----------------------------------------------------------------------------
(* C8 *)

\* C8: after a successful write_to_file the output file exists and its whole content
\* is the accumulator's fragments in order, one newline between neighbours, none at
\* the end, and empty for an empty accumulator
C8_OutputIsJoin ==
    (Finished /\ CurrentRun.result = "ok") =>
        /\ CurrentRun.after.exists
        /\ CurrentRun.after = OutputState(fs, OutputId)
        /\ JoinedAs(CurrentRun.after.content, all_file_contents)

C8_Witness ==
    /\ Finished
    /\ CurrentRun.result = "ok"
    /\ CurrentRun.before.exists
    /\ CurrentRun.before.content # <<>>
    /\ Len(all_file_contents) >= 6
    /\ CurrentRun.after.content # CurrentRun.before.content

----------------------------------------------------------------------------
(* C10 *)

C10_Shape ==
    /\ Len(all_file_contents) % 3 = 0
    /\ Aligned
    /\ \A k \in 1..Len(prov) :
           /\ StartsWith(HeaderAt(k), FilePathPrefix)
           /\ SeparatorAt(k) = Separator
           /\ prov[k].file # OutputId => ContentAt(k) = Lookup(fs, prov[k].file).content

C10_Appends ==
    /\ pc' # "ready" => IsPrefix(all_file_contents, all_file_contents')
    /\ Len(prov') > Len(prov) =>
           /\ Len(all_file_contents') = Len(all_file_contents) + 3
           /\ all_file_contents'[Len(all_file_contents) + 2]
                  = Lookup(fs, prov'[Len(prov')].file).content

\* C10: in every state the accumulator is a whole number of triples, each a
\* 'File Path: ...' header, the content of the file the header was made for, and
\* '---'; and every step of a FileFinder leaves the old accumulator as a prefix of the new
C10_TriplesAppendOnly == [](C10_Shape) /\ [][C10_Appends]_vars

C10_Witness ==
    /\ pc = "walk"
    /\ Len(prov) >= 2
    /\ \E k \in 1..Len(log) : log[k].level = "ERROR"

----------------------------------------------------------------------------
(* Files and folders as the properties see them *)

Ids == {FileId(fs[k]) : k \in 1..Len(fs)}

\* the file's name ends with a configured extension
NameMatches(id) == \E ext \in extensions : IsSuffix(ext, NameOf(id))

Readable(id) == Lookup(fs, id).text

\* the k-th configured folder is a directory below the root
FolderPresent(k) == Split(folders_to_search[k]) \in Dirs

\* the configured folder entries whose subtree holds the file
Covering(id) ==
    {k \in 1..Len(folders_to_search) :
        FolderPresent(k) /\ IsPrefix(Split(folders_to_search[k]), SubSeq(id, 1, Len(id) - 1))}

\* the triples the r-th run appended for the file
TriplesOf(id, r) == {k \in 1..Len(prov) : prov[k].file = id /\ prov[k].run = r}

\* the header find_and_append_files computes for the file
CodeHeader(id) ==
    FilePathPrefix \o RelativePath(root_path, PathJoin(root_path, PathOf(id)))

OutputIsInput ==
    /\ NameMatches(OutputId)
    /\ \E k \in 1..Len(folders_to_search) :
           IsPrefix(Split(folders_to_search[k]), SubSeq(OutputId, 1, Len(OutputId) - 1))

\* a run that is not over can take a step: the loop over the folders is at a folder
\* or past the last one (where write_to_file is called), and the walk is exhausted
\* or at a file that open() can be called on
NeverStuck ==
    Running =>
        \/ /\ pc = "folders"
           /\ idx \in 1..(Len(folders_to_search) + 1)
        \/ /\ pc = "walk"
           /\ idx \in 1..Len(folders_to_search)
           /\ \/ pending = <<>>
              \/ HasFile(fs, Resolve(root_path,
                                     PathJoin(Head(pending).root, Head(pending).file)))

----------------------------------------------------------------------------
(* C1 *)

\* C1: after run() every readable file under a configured folder whose name matches
\* has exactly one triple in the accumulator, whatever the folder list (what the
\* header must read is C3's subject and is not asked here)
C1_ExactlyOnce ==
    (Finished /\ CurrentRun.fresh) =>
        \A id \in Ids \ {OutputId} :
            (NameMatches(id) /\ Readable(id) /\ Covering(id) # {}) =>
                Cardinality(TriplesOf(id, Len(runs))) = 1

\* C1 as amended: after run() on a newly constructed FileFinder every such file other
\* than the output file has one triple per configured folder entry that covers it,
\* each made of the header the code computes, the file's content and '---'
C1_OncePerCoveringFolder ==
    (Finished /\ CurrentRun.fresh) =>
        /\ Aligned
        /\ \A id \in Ids \ {OutputId} :
               (NameMatches(id) /\ Readable(id)) =>
                   /\ Cardinality(TriplesOf(id, Len(runs))) = Cardinality(Covering(id))
                   /\ \A k \in TriplesOf(id, Len(runs)) :
                          /\ HeaderAt(k) = CodeHeader(id)
                          /\ ContentAt(k) = Lookup(fs, id).content
                          /\ SeparatorAt(k) = Separator

C1_Witness ==
    /\ Finished
    /\ CurrentRun.fresh
    /\ \E id \in Ids \ {OutputId} :
           /\ Cardinality(Covering(id)) = 2
           /\ Cardinality(TriplesOf(id, Len(runs))) = 2
    /\ \E id \in Ids \ {OutputId} :
           /\ Cardinality(Covering(id)) = 1
           /\ Cardinality(TriplesOf(id, Len(runs))) = 1

----------------------------------------------------------------------------
(* C2 *)

\* C2: of two consecutive runs that both wrote the output file, the second leaves
\* the file with the content the first left, whether or not a new FileFinder was used
\* and wherever the output file lies
C2_SecondRunSameOutput ==
    \A r \in 1..(Len(runs) - 1) :
        (runs[r].result = "ok" /\ runs[r + 1].result = "ok") =>
            runs[r + 1].after = runs[r].after

\* C2 as amended: the two outputs are equal when each run is the first run() of a
\* newly constructed FileFinder and the output file is not a file the runs read
C2_FreshRunsSameOutput ==
    \A r \in 1..(Len(runs) - 1) :
        (/\ runs[r].result = "ok"
         /\ runs[r + 1].result = "ok"
         /\ runs[r].fresh
         /\ runs[r + 1].fresh
         /\ ~OutputIsInput) =>
            runs[r + 1].after = runs[r].after

C2_Witness ==
    /\ Len(runs) >= 2
    /\ Finished
    /\ runs[Len(runs) - 1].result = "ok"
    /\ CurrentRun.result = "ok"
    /\ runs[Len(runs) - 1].fresh
    /\ CurrentRun.fresh
    /\ ~OutputIsInput
    /\ Len(all_file_contents) >= 6

----------------------------------------------------------------------------
(* C4 *)

\* C4: only files whose name ends, character for character, with a configured
\* extension are opened or have a triple in the accumulator, and the output a
\* successful write leaves holds the accumulator's fragments and nothing else
C4_OnlyMatchingFiles ==
    /\ \A id \in opened : NameMatches(id)
    /\ Aligned
    /\ \A id \in Ids : ~NameMatches(id) => \A k \in 1..Len(prov) : prov[k].file # id
    /\ \A k \in 1..Len(prov) : NameMatches(prov[k].file)
    /\ (Finished /\ CurrentRun.result = "ok") =>
           CurrentRun.after.content = JoinLines(all_file_contents)

C4_Witness ==
    /\ Finished
    /\ CurrentRun.result = "ok"
    /\ folders_to_search[1] = <<"a">>
    /\ << <<"a">>, <<"x", ".", "t", "s">> >> \in opened
    /\ << <<"a">>, <<"w", ".", "T", "S">> >> \notin opened
    /\ << <<"a">>, <<"v", ".", "t", "s", "s">> >> \notin opened

----------------------------------------------------------------------------
(* The log of one run *)

IsFolderRecord(rec) == rec.msg \in {"Searched through", "Folder does not exist"}

IsWarning(rec) == rec.level = "WARNING" /\ rec.msg = "Folder does not exist"

IsReadError(rec) == rec.level = "ERROR" /\ rec.msg = "Error reading"

IsWriteRecord(rec) == rec.msg \in {"Operation completed", "Failed to write"}

\* the record run() logs when it is done with the k-th configured folder
FolderRecord(k) ==
    IF FolderPresent(k)
    THEN Rec("INFO", "Searched through", PathJoin(root_path, folders_to_search[k]))
    ELSE Rec("WARNING", "Folder does not exist", folders_to_search[k])

\* the configured folders that are missing, in configured order
MissingFolders ==
    LET absent(k) == ~FolderPresent(k)
        ks == SelectSeq([k \in 1..Len(folders_to_search) |-> k], absent)
    IN  [j \in 1..Len(ks) |-> folders_to_search[ks[j]]]

\* the files under the k-th configured folder that match and cannot be read
Unreadable(k) ==
    {id \in Ids \ {OutputId} : NameMatches(id) /\ ~Readable(id) /\ k \in Covering(id)}

\* the read errors one run meets: one per configured folder entry and unreadable file
NUnreadable ==
    LET F[k \in 0..Len(folders_to_search)] ==
            IF k = 0 THEN 0 ELSE F[k - 1] + Cardinality(Unreadable(k))
    IN  F[Len(folders_to_search)]

----------------------------------------------------------------------------
(* C5 *)

HeadUnreadable ==
    /\ pc = "walk"
    /\ pending # <<>>
    /\ LET id == Resolve(root_path, PathJoin(Head(pending).root, Head(pending).file))
       IN  NameMatches(id) /\ ~Readable(id)

C5_FailedRead ==
    HeadUnreadable =>
        /\ all_file_contents' = all_file_contents
        /\ log' = Append(log, Rec("ERROR", "Error reading",
                                  PathJoin(Head(pending).root, Head(pending).file)))
        /\ pending' = Tail(pending)
        /\ pc' = "walk"
        /\ idx' = idx

C5_RunGoesOn ==
    /\ NeverStuck
    /\ Finished =>
           /\ CurrentRun.writes = 1
           /\ Len(SelectSeq(RunLog(Len(runs)), IsReadError))
                  = NUnreadable
           /\ \A id \in Ids \ {OutputId} :
                  (NameMatches(id) /\ Readable(id)) =>
                      Cardinality(TriplesOf(id, Len(runs))) = Cardinality(Covering(id))

\* C5: the step that meets a matched file it cannot read leaves the accumulator as it
\* was, logs an error and moves to the next file of the same walk; the run is never
\* stuck before write_to_file, and when it is over every readable matched file of
\* every configured folder has its triples and write_to_file has been called
C5_ReadFailureSkipsFile == [](C5_RunGoesOn) /\ [][C5_FailedRead]_vars

C5_Witness ==
    /\ Finished
    /\ CurrentRun.writes = 1
    /\ \E j, k \in 1..Len(RunLog(Len(runs))) :
           /\ j < k
           /\ IsReadError(RunLog(Len(runs))[j])
           /\ RunLog(Len(runs))[k].msg = "Appended content from"

----------------------------------------------------------------------------
(* C6 *)

HeadMissing ==
    /\ pc = "folders"
    /\ idx <= Len(folders_to_search)
    /\ ~FolderPresent(idx)

C6_MissingStep ==
    HeadMissing =>
        /\ all_file_contents' = all_file_contents
        /\ log' = Append(log, Rec("WARNING", "Folder does not exist", folders_to_search[idx]))
        /\ idx' = idx + 1
        /\ pc' = "folders"

C6_RunCompletes ==
    /\ NeverStuck
    /\ Finished =>
           /\ LET w == SelectSeq(RunLog(Len(runs)), IsWarning)
              IN  [j \in 1..Len(w) |-> w[j].arg] = MissingFolders
           /\ \A k \in 1..Len(prov) :
                  prov[k].run = Len(runs) =>
                      /\ FolderPresent(prov[k].folder)
                      /\ prov[k].folder \in Covering(prov[k].file)
           /\ CurrentRun.writes = 1
           /\ CurrentRun.result = "ok" =>
                  /\ CurrentRun.after.exists
                  /\ CurrentRun.after.content = JoinLines(all_file_contents)
                  /\ all_file_contents = <<>> => CurrentRun.after.content = <<>>

\* C6: a missing folder costs one warning and nothing else: the step leaves the
\* accumulator alone and run() moves to the next folder, is never stuck, calls
\* write_to_file, and the file a successful write leaves is made of the fragments of
\* the folders that exist (it is empty when there are none)
C6_MissingFolderSkipped == [](C6_RunCompletes) /\ [][C6_MissingStep]_vars

C6_Witness ==
    /\ Finished
    /\ CurrentRun.fresh
    /\ CurrentRun.result = "ok"
    /\ Len(folders_to_search) = 2
    /\ ~FolderPresent(1)
    /\ FolderPresent(2)
    /\ Len(all_file_contents) >= 3

----------------------------------------------------------------------------
(* C7 *)

WriteFailed == Finished /\ CurrentRun.result \in {"open_failed", "write_failed"}

\* C7: when write_to_file fails, the file at the output path is as it was before the
\* run: nothing written by the run, nothing of the old content lost
C7_FailedWriteLeavesFile == WriteFailed => CurrentRun.after = CurrentRun.before

\* C7 as amended: a failed write_to_file logs an error and the run ends normally; the
\* file is as it was when the open failed, but when the write failed after the open
\* the old content is gone and the file holds the part of the run's output that got
\* written
C7_FailedWriteLogsAndTruncates ==
    WriteFailed =>
        /\ log[Len(log)] = Rec("ERROR", "Failed to write", output_filename)
        /\ CurrentRun.writes = 1
        /\ CurrentRun.after = OutputState(fs, OutputId)
        /\ CurrentRun.result = "open_failed" => CurrentRun.after = CurrentRun.before
        /\ CurrentRun.result = "write_failed" =>
               /\ CurrentRun.after.exists
               /\ IsPrefix(CurrentRun.after.content, JoinLines(all_file_contents))

C7_Witness ==
    /\ WriteFailed
    /\ CurrentRun.result = "write_failed"
    /\ CurrentRun.before.exists
    /\ CurrentRun.before.content # <<>>
    /\ CurrentRun.after.content # <<>>
    /\ CurrentRun.after.content # CurrentRun.before.content

----------------------------------------------------------------------------
(* C9 *)

ThisRun(k) == prov[k].run = Len(runs)

\* C9: during and after a run the folder records of its log are those of the
\* configured folders done so far, in configured order; the triples it appended come
\* from folders in that order, each from the folder being walked; write_to_file has
\* been called once when the run is over and not at all before, its record is the
\* last of the run's log, and the run is never stuck before it
C9_FoldersInOrderThenWrite ==
    (runs # <<>> /\ pc # "ready") =>
        /\ NeverStuck
        /\ idx \in 1..(Len(folders_to_search) + 1)
        /\ LET ev == SelectSeq(RunLog(Len(runs)), IsFolderRecord)
           IN  ev = [k \in 1..(idx - 1) |-> FolderRecord(k)]
        /\ \A k \in 1..Len(prov) :
               ThisRun(k) =>
                   /\ prov[k].folder \in Covering(prov[k].file)
                   /\ prov[k].folder <= idx
                   /\ pc = "folders" => prov[k].folder < idx
        /\ \A j, k \in 1..Len(prov) :
               (ThisRun(j) /\ ThisRun(k) /\ j < k) => prov[j].folder <= prov[k].folder
        /\ CurrentRun.writes = (IF Finished THEN 1 ELSE 0)
        /\ Len(SelectSeq(RunLog(Len(runs)), IsWriteRecord)) = CurrentRun.writes
        /\ Finished =>
               /\ idx = Len(folders_to_search) + 1
               /\ IsWriteRecord(log[Len(log)])

C9_Witness ==
    /\ Finished
    /\ Len(folders_to_search) = 2
    /\ \E j, k \in 1..Len(prov) :
           /\ ThisRun(j)
           /\ ThisRun(k)
           /\ prov[j].folder = 1
           /\ prov[k].folder = 2
    /\ \E j \in 1..Len(RunLog(Len(runs))) : IsReadError(RunLog(Len(runs))[j])

====
